---- MODULE Spec2Model ----
(***************************************************************************)
(* A model of cratetorrent's per-piece block download tracker              *)
(* (src/cratetorrent/src/download.rs) and of its UDP tracker announce      *)
(* (src/cratetorrent/src/tracker.rs).                                      *)
(*                                                                         *)
(* Spec     : one PieceDownload driven by several peer sessions, every     *)
(*            call of pick_blocks / received_block / free_block_count      *)
(*            being one atomic step (the engine serialises the calls).     *)
(* SpecUdp  : one call of Tracker::announce over UDP, one step per         *)
(*            suspension point (bind, send_to, recv_from under timeout).   *)
(* SpecHttp : one call of Tracker::announce over HTTP, one step per await, *)
(*            with the decoding of the body's peers field.                 *)
(* SpecContract : one PieceDownload whose received_block is called with    *)
(*            any BlockInfo, the callers' contract not assumed.            *)
(* SpecLive : one PieceDownload whose sessions keep picking and whose peers *)
(*            deliver every picked block once, under weak fairness.        *)
(* SpecNew  : PieceDownload::new on piece lengths over the whole of u32.   *)
(***************************************************************************)
EXTENDS Integers, Sequences, FiniteSets, TLC

VARIABLES
    \* ---- PieceDownload (download.rs:18-26) ----
    index,              \* PieceDownload::index
    length,             \* PieceDownload::length
    blocks,             \* PieceDownload::blocks, a sequence of Block
    \* ---- the callers of the PieceDownload ----
    debug_assertions,   \* whether the build compiles debug_assert! in
    panicked,           \* a debug assertion failed: the calling task unwound
    op,                 \* the last call made on the PieceDownload: its
                        \* name, its arguments and what it returned
    returned,           \* every BlockInfo pick_blocks returned, in order,
                        \* with the session it was returned to
    \* ---- Tracker::announce over UDP (tracker.rs:168-217, 305-449) ----
    upc,                \* where the task running announce() stands
    params,             \* announce()'s argument, the Announce
    a_port,             \* the port announce_udp's socket is bound to
    c_port,             \* the port connect_udp's socket is bound to
    c_tid,              \* connect_udp's transaction_id (line 179)
    c_buf,              \* connect_udp's response_buf (line 188), by field
    attempts,           \* connect_udp's attempts (line 193)
    could_connect,      \* connect_udp's could_connect (line 195)
    c_only_timeouts,    \* every receive attempt of connect_udp so far timed out
    c_last,             \* the outcome of connect_udp's last receive attempt
    c_result,           \* what connect_udp returned, an Option<i64>
    connection_id,      \* announce_udp's connection_id (line 321)
    a_tid,              \* announce_udp's transaction_id (line 324)
    a_last,             \* the outcome of announce_udp's receive
    result,             \* how announce() ended for its caller
    sent,               \* every frame handed to send_to, in order
    \* ---- Tracker::announce over HTTP (tracker.rs:235-303) ----
    hpc,                \* where the task running announce() stands
    h_requests,         \* every request handed to send(), in order
    h_reply,            \* what the tracker's reply was, as far as read
    h_result,           \* what announce() returned
    \* ---- PieceDownload::new over u32 (download.rs:30-42) ----
    new_length,         \* the piece length passed to new(), a u32
    new_outcome         \* how new() ended, with the blocks it made

dvars == <<index, length, blocks, debug_assertions, panicked, op, returned>>
uvars == <<upc, params, a_port, c_port, c_tid, c_buf, attempts, could_connect,
           c_only_timeouts, c_last, c_result, connection_id, a_tid, a_last, result,
           sent>>
hvars == <<hpc, h_requests, h_reply, h_result>>
nvars == <<new_length, new_outcome>>
vars == <<dvars, uvars, hvars, nvars>>

(***************************************************************************)
(* Bounds of the model.                                                    *)
(***************************************************************************)
MaxBlocks == 3      \* pieces have at most this many blocks
MaxCount == 3       \* pick_blocks is called with count in 0..MaxCount
NumSessions == 2    \* peer sessions sharing the piece

\* crate::BLOCK_LEN, imported at download.rs:1 (16 KiB).
BLOCK_LEN == 16384

Sessions == 1..NumSessions
\* The piece indices tried: the first piece and a later one.
PieceIndexes == {0, 5}
\* Piece lengths: every whole number of blocks up to MaxBlocks, and every
\* such number followed by a shortest (1 byte) and a longest
\* (BLOCK_LEN - 1 bytes) last block.
Remainders == {0, 1, BLOCK_LEN - 1}
PieceLengths ==
    {l \in {k * BLOCK_LEN + r : k \in 0..MaxBlocks, r \in Remainders} :
        l >= 1 /\ l <= MaxBlocks * BLOCK_LEN}

(***************************************************************************)
(* enum Block (download.rs:4-14)                                           *)
(***************************************************************************)
Block == {"Free", "Requested", "Received"}
Block_default == "Free"

(***************************************************************************)
(* crate::BlockInfo: the triple (piece_index, offset, length).  The type   *)
(* lives in the crate root; download.rs shows its constructor's call       *)
(* (line 64: two arguments, the piece index and the offset), its fields    *)
(* (lines 87-89) and its index() accessor (line 92).                       *)
(***************************************************************************)
BlockInfo_new(piece_index, offset) ==
    [piece_index |-> piece_index, offset |-> offset, length |-> BLOCK_LEN]

BlockInfo_index(block) == block.offset \div BLOCK_LEN

NoBlock == [piece_index |-> -1, offset |-> -1, length |-> -1]

(***************************************************************************)
(* PieceDownload::new (download.rs:30-42)                                  *)
(***************************************************************************)
\* A u32 is the pair (hi, lo) of its two 16-bit halves, hi * 65536 + lo.
U32(hi, lo) == [hi |-> hi, lo |-> lo]
ToU32(n) == U32(n \div 65536, n % 65536)

\* a + b in u32: the sum modulo 2^32, and whether it left the u32 range.
U32Add(a, b) ==
    LET lo == a.lo + b.lo
        hi == a.hi + b.hi + lo \div 65536
    IN [overflow |-> hi >= 65536, value |-> U32(hi % 65536, lo % 65536)]

\* a / BLOCK_LEN in u32 (65536 is a multiple of BLOCK_LEN).
U32DivBlockLen(a) == a.hi * (65536 \div BLOCK_LEN) + a.lo \div BLOCK_LEN

\* Line 34 on a u32 length: the quotient, and whether the sum overflowed.
blocks_count_u32(len) ==
    LET sum == U32Add(len, ToU32(BLOCK_LEN - 1))
    IN [overflow |-> sum.overflow, count |-> U32DivBlockLen(sum.value)]

\* Line 34 on a length written as a number; no length in PieceLengths
\* makes the sum overflow.
blocks_count(len) == blocks_count_u32(ToU32(len)).count

PieceDownload_new(idx, len) ==
    [index |-> idx,
     length |-> len,
     blocks |-> [i \in 1..blocks_count(len) |-> Block_default]]

(***************************************************************************)
(* PieceDownload::pick_blocks (download.rs:45-79).  PickLoop is the for    *)
(* loop of lines 56-69 from the i-th block on (i counts from 1 here, the   *)
(* code's enumerate() from 0): blks is self.blocks, picked the local Vec   *)
(* `blocks`.                                                               *)
(***************************************************************************)
\* Mutants of IsPickable: a block is picked again while it is Requested
\* (NotReceived), or once it is Received (NotRequested).
IsPickable_NotReceived(block) == block # "Received"
IsPickable_NotRequested(block) == block # "Requested"

\* Line 63.
IsPickable(block) == block = "Free"

\* Mutant of PickedState: the picked block is left Free.
PickedState_LeftFree == "Free"

\* Line 65.
PickedState == "Requested"

\* Mutant of PickedOffset: the offset of the block after the picked one.
PickedOffset_OneAhead(i) == i * BLOCK_LEN

\* Line 64: i as u32 * BLOCK_LEN, for the code's i (this i, less one).
PickedOffset(i) == (i - 1) * BLOCK_LEN

RECURSIVE PickLoop(_, _, _, _, _)
PickLoop(i, idx, blks, picked, count) ==
    IF i > Len(blks) THEN [blocks |-> blks, picked |-> picked]
    ELSE IF Len(picked) = count THEN [blocks |-> blks, picked |-> picked]
    ELSE IF IsPickable(blks[i])
         THEN PickLoop(i + 1, idx,
                       [blks EXCEPT ![i] = PickedState],
                       Append(picked, BlockInfo_new(idx, PickedOffset(i))),
                       count)
         ELSE PickLoop(i + 1, idx, blks, picked, count)

pick_blocks(idx, blks, count) == PickLoop(1, idx, blks, <<>>, count)

(***************************************************************************)
(* PieceDownload::free_block_count (download.rs:100-104)                   *)
(***************************************************************************)
\* Mutant of free_block_count: the blocks not yet Received are counted.
free_block_count_NotReceived(blks) ==
    Cardinality({i \in 1..Len(blks) : blks[i] # "Received"})

free_block_count(blks) ==
    Cardinality({i \in 1..Len(blks) : blks[i] = "Free"})

(***************************************************************************)
(* PieceDownload::received_block (download.rs:82-97)                       *)
(***************************************************************************)
\* Mutant of ReceivedAsserts: the block's state is not asserted.
ReceivedAsserts_NoStateCheck(block) ==
    /\ block.piece_index = index
    /\ block.offset < length
    /\ block.length <= length

\* The four debug assertions of lines 87-92.
ReceivedAsserts(block) ==
    /\ block.piece_index = index
    /\ block.offset < length
    /\ block.length <= length
    /\ blocks[BlockInfo_index(block) + 1] = "Requested"

\* Mutant of ReceivedState: the block received is put back to Free.
ReceivedState_Freed == "Free"

ReceivedState == "Received"

\* Mutant of received_block: the block after the one received is marked too.
received_block_AndNext(blks, block) ==
    [i \in 1..Len(blks) |->
        IF i \in {BlockInfo_index(block) + 1, BlockInfo_index(block) + 2}
        THEN "Received" ELSE blks[i]]

\* Line 94.
received_block(blks, block) ==
    [blks EXCEPT ![BlockInfo_index(block) + 1] = ReceivedState]

(***************************************************************************)
(* The calls the peer sessions make.                                       *)
(***************************************************************************)
\* A call: count is pick_blocks' argument and picked what it returned, block
\* is received_block's argument, free is what free_block_count returned.
Op(name, count, picked, block, free) ==
    [name |-> name, count |-> count, picked |-> picked, block |-> block,
     free |-> free]

ReturnedBlocks == {returned[i].block : i \in 1..Len(returned)}
ReturnedTo(s) ==
    {returned[i].block : i \in {j \in 1..Len(returned) : returned[j].session = s}}

RECURSIVE Tagged(_, _)
Tagged(s, picked) ==
    IF picked = <<>> THEN <<>>
    ELSE <<[session |-> s, block |-> Head(picked)]>> \o Tagged(s, Tail(picked))

(***************************************************************************)
(* Tracker::announce over UDP (tracker.rs:168-217 and 305-449).            *)
(*                                                                         *)
(* 32-bit and 64-bit values are drawn from small sets that hold 0, the     *)
(* value of a zeroed buffer.  A u64 is the pair (top, rest) of its top     *)
(* bit and its other 63 bits: try_into::<i64>() fails exactly when top is  *)
(* set.  An IPv4 address is its four octets.                               *)
(***************************************************************************)
BufPeers == 2       \* peer records the receive buffer of line 380 holds
                    \* (the code's 2048-byte buffer holds 338)

PROTOCOL_ID == "0x41727101980"      \* line 177
MaxAttempts == 5                    \* line 197
TxIds == {0, 7}                     \* transaction ids (random i32)
ConnIds == {0, 99}                  \* connection ids (i64)
Keys == {5}                         \* announce keys (random u32)
\* gen_range(1025..u16::MAX): the lowest and the highest port drawn.
Ports == {1025, 65534}
ReplyActions == {0, 1, 3}           \* connect, announce, error (BEP 15)

None == [some |-> FALSE, val |-> 0]
Some(v) == [some |-> TRUE, val |-> v]

U64(top, rest) == [top |-> top, rest |-> rest]
ZeroIp == <<0, 0, 0, 0>>
ClientIp == <<192, 168, 0, 10>>

\* Announce::tracker_id (lines 88-90) when it is None: an Option<String>.
NoTrackerId == [some |-> FALSE, val |-> ""]

\* The Announce values tried (struct Announce, lines 62-95).
Announces ==
    { [info_hash |-> "abcdefghij1234567890", peer_id |-> "cbt-2020-03-03-00000",
       port |-> 16, ip |-> a.ip, downloaded |-> a.downloaded,
       uploaded |-> U64(FALSE, 22), left |-> U64(FALSE, 33),
       peer_count |-> a.peer_count, tracker_id |-> a.tracker_id,
       event |-> a.event] :
      a \in { [event |-> "None", ip |-> "None", peer_count |-> None,
               tracker_id |-> NoTrackerId, downloaded |-> U64(FALSE, 11)],
              [event |-> "Started", ip |-> "V4", peer_count |-> Some(2),
               tracker_id |-> NoTrackerId, downloaded |-> U64(FALSE, 11)],
              [event |-> "Completed", ip |-> "V6", peer_count |-> Some(2),
               tracker_id |-> Some("tracker-1"),
               downloaded |-> U64(FALSE, 11)],
              [event |-> "Stopped", ip |-> "None", peer_count |-> None,
               tracker_id |-> NoTrackerId, downloaded |-> U64(TRUE, 0)] } }

NoAnnounce ==
    [info_hash |-> "", peer_id |-> "", port |-> 0, ip |-> "None",
     downloaded |-> U64(FALSE, 0), uploaded |-> U64(FALSE, 0),
     left |-> U64(FALSE, 0), peer_count |-> None,
     tracker_id |-> NoTrackerId, event |-> "None"]

\* ---- datagrams and receive outcomes ----

\* A datagram the connect socket may receive: its first len bytes, by
\* field (the bytes past len do not exist and are written 0 here).
ConnectDatagrams ==
    {d \in [len : {0, 4, 8, 16}, action : ReplyActions \ {1},
            transaction_id : TxIds, connection_id : ConnIds] :
        /\ d.len < 4 => d.action = 0
        /\ d.len < 8 => d.transaction_id = 0
        /\ d.len < 16 => d.connection_id = 0}

NoConnectDatagram ==
    [len |-> 0, action |-> 0, transaction_id |-> 0, connection_id |-> 0]

PeerRecords == [ip : {ZeroIp, <<10, 0, 0, 1>>}, port : {0, 6881}]
ZeroPeer == [ip |-> ZeroIp, port |-> 0]

RECURSIVE SeqsUpTo(_, _)
SeqsUpTo(S, n) ==
    IF n = 0 THEN {<<>>}
    ELSE LET shorter == SeqsUpTo(S, n - 1) IN
           shorter \cup {Append(q, x) : q \in shorter, x \in S}

\* A datagram the announce socket may receive: nothing (len 0), the first
\* 8 bytes, or the 20 byte header followed by peer records.
AnnounceDatagrams ==
    {d \in [len : {0, 8, 20}, action : ReplyActions \ {0},
            transaction_id : TxIds,
            counts : {<<0, 0>>, <<3, 5>>, <<-1, 5>>},
            peers : SeqsUpTo(PeerRecords, BufPeers)] :
        /\ d.len < 8 => d.action = 1 /\ d.transaction_id = 0
        /\ d.len < 20 => d.counts = <<0, 0>> /\ d.peers = <<>>}

NoAnnounceDatagram ==
    [len |-> 0, action |-> 1, transaction_id |-> 0, counts |-> <<0, 0>>,
     peers |-> <<>>]

\* What timeout(wait_time, sock.recv_from(..)).await evaluates to: Err(_)
\* ("timeout"), Ok(Ok(_)) ("datagram") or Ok(Err(_)) ("error"); wait is
\* wait_time in seconds.
Outcome(kind, d, wait) == [kind |-> kind, d |-> d, wait |-> wait]

\* connect_udp's wait_time (line 192) and announce_udp's (lines 383-386).
ConnectWaitTime == 3

\* Mutant of AnnounceWaitTime: the reply is awaited for ten seconds.
AnnounceWaitTime_TenSeconds(cid) == 10
AnnounceWaitTime(cid) == IF cid = 0 THEN 0 ELSE 3

\* ---- connect_udp ----

\* response_buf of line 188: [0; 16].
ZeroConnectBuf == [action |-> 0, transaction_id |-> 0, connection_id |-> 0]

\* recv_from writes the datagram's bytes over the start of the buffer.
RecvIntoConnectBuf(buf, d) ==
    [action |-> IF d.len >= 4 THEN d.action ELSE buf.action,
     transaction_id |->
        IF d.len >= 8 THEN d.transaction_id ELSE buf.transaction_id,
     connection_id |->
        IF d.len >= 16 THEN d.connection_id ELSE buf.connection_id]

\* The loop condition of line 197.
ConnectLoopContinues(buf, n) == buf = ZeroConnectBuf /\ n < MaxAttempts

\* Lines 198-202: could_connect after one attempt.
CouldConnectAfter(kind) == kind # "timeout"

\* Lines 208-215.
ConnectResult(could, tid, buf) ==
    IF could /\ tid = buf.transaction_id
    THEN Some(buf.connection_id)
    ELSE None

\* The frame of lines 181-184.
ConnectFrame(tid) ==
    [protocol_id |-> PROTOCOL_ID, action |-> 0, transaction_id |-> tid]

\* ---- announce_udp ----

\* Lines 341-348.
EventCode(event) ==
    CASE event = "Completed" -> 1
      [] event = "Started" -> 2
      [] event = "Stopped" -> 3
      [] OTHER -> 0

\* Lines 349-365.
IpField(ip) == IF ip = "V4" THEN ClientIp ELSE ZeroIp

\* Lines 368-371; a peer_count over i32::MAX is not among the values tried.
NumWant(peer_count) == IF peer_count.some THEN peer_count.val ELSE -1

\* Lines 337-339: the try_into().unwrap() of the three counters.
CountersFitI64(p) == ~p.downloaded.top /\ ~p.left.top /\ ~p.uploaded.top

\* The frame of lines 327-372.
AnnounceFrame(cid, tid, key, p) ==
    [connection_id |-> cid, action |-> 1, transaction_id |-> tid,
     info_hash |-> p.info_hash, peer_id |-> p.peer_id,
     downloaded |-> p.downloaded.rest, left |-> p.left.rest,
     uploaded |-> p.uploaded.rest, event |-> EventCode(p.event),
     ip |-> IpField(p.ip), key |-> key,
     numwant |-> NumWant(p.peer_count), port |-> p.port]

\* bytes_to_send of lines 326-372: the put calls on the BytesMut in their
\* order, each with the field it writes, the bytes it appends (put_i64 8,
\* put_i32 and put_u32 4, put_u16 2, a [u8; 20] slice 20, the octets of an
\* Ipv4Addr 4) and the value written; every multi-byte put is big-endian.
AnnounceBytes(f) ==
    << [field |-> "connection_id", size |-> 8],
       [field |-> "action", size |-> 4],
       [field |-> "transaction_id", size |-> 4],
       [field |-> "info_hash", size |-> Len(f.info_hash)],
       [field |-> "peer_id", size |-> Len(f.peer_id)],
       [field |-> "downloaded", size |-> 8],
       [field |-> "left", size |-> 8],
       [field |-> "uploaded", size |-> 8],
       [field |-> "event", size |-> 4],
       [field |-> "ip", size |-> Len(f.ip)],
       [field |-> "key", size |-> 4],
       [field |-> "numwant", size |-> 4],
       [field |-> "port", size |-> 2] >>

\* BytesMut::len after the first n puts: each put appends at the end.
RECURSIVE BytesLen(_, _)
BytesLen(puts, n) ==
    IF n = 0 THEN 0 ELSE BytesLen(puts, n - 1) + puts[n].size

\* response_buf of line 380, [0; MAX_NUM_PEERS]: the header fields and the
\* peer records after offset 20.
ZeroAnnounceBuf ==
    [action |-> 0, transaction_id |-> 0, counts |-> <<0, 0>>,
     peers |-> [i \in 1..BufPeers |-> ZeroPeer]]

RecvIntoAnnounceBuf(buf, d) ==
    [action |-> IF d.len >= 8 THEN d.action ELSE buf.action,
     transaction_id |->
        IF d.len >= 8 THEN d.transaction_id ELSE buf.transaction_id,
     counts |-> IF d.len >= 20 THEN d.counts ELSE buf.counts,
     peers |-> [i \in 1..BufPeers |->
                  IF d.len >= 20 /\ i <= Len(d.peers)
                  THEN d.peers[i] ELSE buf.peers[i]]]

\* Line 414.
IsPeerRecord(r) == r.ip # ZeroIp /\ r.port # 0

\* The loop of lines 408-430 from the i-th record of the buffer on.
RECURSIVE ParsePeers(_, _, _)
ParsePeers(recs, i, peer_vec) ==
    IF i > Len(recs) THEN peer_vec
    ELSE IF IsPeerRecord(recs[i])
         THEN ParsePeers(recs, i + 1, Append(peer_vec, recs[i]))
         ELSE peer_vec

\* Lines 388-394 and 432-435.
TIMEOUT_REASON == "Couldn't announce to tracker"
MISMATCH_REASON == "Transaction ID's did not match"

FailureReason(kind, tid, tid_recv) ==
    IF tid # tid_recv THEN Some(MISMATCH_REASON)
    ELSE IF kind = "timeout" THEN Some(TIMEOUT_REASON)
    ELSE [some |-> FALSE, val |-> ""]

\* Lines 437-446.
Response(kind, tid, buf) ==
    [tracker_id |-> buf.transaction_id,
     failure_reason |-> FailureReason(kind, tid, buf.transaction_id),
     interval |-> 9,
     leecher_count |-> buf.counts[1],
     seeder_count |-> buf.counts[2],
     peers |-> ParsePeers(buf.peers, 1, <<>>)]

NoResponse ==
    [tracker_id |-> 0, failure_reason |-> [some |-> FALSE, val |-> ""],
     interval |-> 0, leecher_count |-> 0, seeder_count |-> 0, peers |-> <<>>]

\* How announce() ended: it has not ("running"), it returned Ok(response)
\* ("ok"), or the task panicked at a line of tracker.rs ("panic").
Running == [kind |-> "running", line |-> 0, response |-> NoResponse]
ReturnedOk(r) == [kind |-> "ok", line |-> 0, response |-> r]
Panic(line) == [kind |-> "panic", line |-> line, response |-> NoResponse]

\* No announce is under way.
UdpIdle ==
    /\ upc = "idle"
    /\ params = NoAnnounce
    /\ a_port = 0
    /\ c_port = 0
    /\ c_tid = 0
    /\ c_buf = ZeroConnectBuf
    /\ attempts = 0
    /\ could_connect = FALSE
    /\ c_only_timeouts = TRUE
    /\ c_last = Outcome("none", NoConnectDatagram, 0)
    /\ c_result = None
    /\ connection_id = 0
    /\ a_tid = 0
    /\ a_last = Outcome("none", NoAnnounceDatagram, 0)
    /\ result = Running
    /\ sent = <<>>

(***************************************************************************)
(* The peers field of an HTTP tracker's response (tracker.rs:468-547) and  *)
(* the compact encoder of the tests (722-741).  A byte is a number in      *)
(* 0..255 and a byte string a sequence of bytes.  A u32 read from the      *)
(* buffer is the pair (hi, lo) of its two 16-bit halves.                   *)
(***************************************************************************)
MaxPeers == 2       \* peers in one tracker response

\* The (Ipv4Addr, u16) pairs a tracker encodes.
Ipv4Addrs == {<<2, 156, 201, 254>>, <<192, 168, 0, 10>>, <<255, 255, 255, 255>>}
PeerPorts == {0, 49123, 65535}
CompactPeers == [ip : Ipv4Addrs, port : PeerPorts]

\* IpAddr::V4 / IpAddr::V6 and SocketAddr::new.
V4(octets) == [v |-> 4, octets |-> octets]
V6(octets) == [v |-> 6, octets |-> octets]
SocketAddr_new(ip, port) == [ip |-> ip, port |-> port]

\* Lines 725-732: ip.octets() chained with [(port >> 8) as u8,
\* (port & 0xff) as u8].
EncodeCompactPeer(peer) ==
    <<peer.ip[1], peer.ip[2], peer.ip[3], peer.ip[4],
      peer.port \div 256, peer.port % 256>>

\* Lines 723-735: the records of all peers, flattened.
RECURSIVE encode_compact_peers_list(_)
encode_compact_peers_list(peers) ==
    IF peers = <<>> THEN <<>>
    ELSE EncodeCompactPeer(Head(peers)) \o encode_compact_peers_list(Tail(peers))

\* const ENTRY_LEN (line 498).
ENTRY_LEN == 6

\* Buf::get_u32 (line 512): the next four bytes, big-endian.
get_u32(b) == [hi |-> b[1] * 256 + b[2], lo |-> b[3] * 256 + b[4]]

\* Mutant of get_u16: the two bytes read little-endian.
get_u16_LittleEndian(b) == b[2] * 256 + b[1]

\* Buf::get_u16 (line 513): the next two bytes, big-endian.
get_u16(b) == b[1] * 256 + b[2]

\* Ipv4Addr::from(u32) (line 512): the four bytes of the u32, big-endian.
Ipv4Addr_from(u) == <<u.hi \div 256, u.hi % 256, u.lo \div 256, u.lo % 256>>

\* What a visitor returns: Ok(peers) or Err(error).
DecodeOk(peers) == [ok |-> TRUE, peers |-> peers, error |-> ""]
DecodeErr(error) == [ok |-> FALSE, peers |-> <<>>, error |-> error]

\* The loop of lines 511-516 over what is left of the buffer; get_u32 and
\* get_u16 advance it by 4 and by 2 bytes.
RECURSIVE VisitBytesLoop(_, _)
VisitBytesLoop(b, peers) ==
    IF b = <<>> THEN peers
    ELSE LET addr == Ipv4Addr_from(get_u32(b))
             port == get_u16(SubSeq(b, 5, Len(b)))
         IN VisitBytesLoop(SubSeq(b, ENTRY_LEN + 1, Len(b)),
                           Append(peers, SocketAddr_new(V4(addr), port)))

\* Visitor::visit_bytes (lines 492-519).
visit_bytes(b) ==
    IF Len(b) % ENTRY_LEN # 0
    THEN DecodeErr("peers compact string must be a multiple of 6")
    ELSE DecodeOk(VisitBytesLoop(b, <<>>))

\* str::parse::<IpAddr>() (line 534) on the ip strings tried: two
\* addresses, an octet out of range and a host name.
IpStrings == {"192.168.1.10", "::1", "256.1.1.1", "example.org"}
ParseIp(ip) ==
    CASE ip = "192.168.1.10" -> [ok |-> TRUE, ip |-> V4(<<192, 168, 1, 10>>)]
      [] ip = "::1" ->
            [ok |-> TRUE,
             ip |-> V6(<<0, 0, 0, 0, 0, 0, 0, 0, 0, 0, 0, 0, 0, 0, 0, 1>>)]
      [] OTHER -> [ok |-> FALSE, ip |-> V4(ZeroIp)]

\* The entries of a full peer list: an entry deserializes into a RawPeer
\* (lines 526-530) when it is a dict with a string ip and a u16 port
\* (valid), and not otherwise.
RawPeers == [valid : {TRUE}, ip : IpStrings, port : {1234, 55123}]
MalformedEntry == [valid |-> FALSE, ip |-> "", port |-> 0]

\* Mutant of PushPeer: the peer is put at the front of the list.
PushPeer_AtFront(peers, peer) == <<peer>> \o peers

\* Line 539.
PushPeer(peers, peer) == Append(peers, peer)

\* The loop of lines 533-540 from the i-th entry of the list on.
RECURSIVE VisitSeqLoop(_, _, _)
VisitSeqLoop(entries, i, peers) ==
    IF i > Len(entries) THEN DecodeOk(peers)
    ELSE IF ~entries[i].valid THEN DecodeErr("invalid type")
    ELSE LET ip == ParseIp(entries[i].ip) IN
           IF ip.ok
           THEN VisitSeqLoop(entries, i + 1,
                    PushPeer(peers, SocketAddr_new(ip.ip, entries[i].port)))
           ELSE VisitSeqLoop(entries, i + 1, peers)

\* Visitor::visit_seq (lines 522-543).
visit_seq(entries) == VisitSeqLoop(entries, 1, <<>>)

\* A response body: whether it is a Bencode dict that deserializes into a
\* Response apart from its peers field (bencode), and the peers field: not
\* there ("absent"), a byte string ("bytes"), a list ("list") or a value
\* of another type ("int").  `of` is the peer list a tracker encoded into
\* the byte string, of which the body may hold all but the last cut bytes.
Body(bencode, form, bytes, entries, of) ==
    [bencode |-> bencode, form |-> form, bytes |-> bytes,
     entries |-> entries, of |-> of]

NoBody == Body(FALSE, "absent", <<>>, <<>>, <<>>)

CompactBodies ==
    {Body(TRUE, "bytes",
          SubSeq(encode_compact_peers_list(l), 1,
                 Len(encode_compact_peers_list(l)) - cut),
          <<>>, l) :
       l \in SeqsUpTo(CompactPeers, MaxPeers) \ {<<>>}, cut \in 0..(ENTRY_LEN - 1)}
    \cup {Body(TRUE, "bytes", <<>>, <<>>, <<>>)}

FullBodies ==
    {Body(TRUE, "list", <<>>, entries, <<>>) :
       entries \in SeqsUpTo(RawPeers \cup {MalformedEntry}, MaxPeers)}

Bodies ==
    CompactBodies \cup FullBodies
    \cup {NoBody, Body(TRUE, "absent", <<>>, <<>>, <<>>),
          Body(TRUE, "int", <<>>, <<>>, <<>>)}

\* deserialize_peers (lines 468-547): deserialize_any hands a byte string
\* to visit_bytes and a list to visit_seq; the Visitor takes no other type.
deserialize_peers(body) ==
    CASE body.form = "bytes" -> visit_bytes(body.bytes)
      [] body.form = "list" -> visit_seq(body.entries)
      [] OTHER -> DecodeErr("invalid type")

\* serde_bencode::from_bytes::<Response> (line 301); a Response without a
\* peers field has the default, no peers (lines 143-145).
from_bytes(body) ==
    IF ~body.bencode THEN DecodeErr("invalid bencode")
    ELSE IF body.form = "absent" THEN DecodeOk(<<>>)
    ELSE deserialize_peers(body)

(***************************************************************************)
(* Tracker::announce over HTTP (tracker.rs:235-303).                       *)
(***************************************************************************)
\* Status codes of a final response: reqwest follows redirects itself, so
\* a 3xx is one it does not follow (304 Not Modified).
Statuses == {200, 304, 404, 503}

\* Mutant of IsErrorStatus: only server errors are errors.
IsErrorStatus_ServerOnly(status) == status \in 500..599

\* Response::error_for_status (line 298): Err on a client or server error
\* status.
IsErrorStatus(status) == status \in 400..599

\* The request of lines 238-295; numbers stand for their decimal strings.
HttpRequest(p) ==
    [method |-> "GET", info_hash |-> p.info_hash, peer_id |-> p.peer_id,
     port |-> p.port, downloaded |-> p.downloaded, uploaded |-> p.uploaded,
     left |-> p.left, compact |-> "1", numwant |-> p.peer_count, ip |-> p.ip]

\* How far the reply was read: nothing yet ("none"), send() failed
\* ("send_failed"), the status line and headers arrived ("status"),
\* bytes() failed ("bytes_failed") or the body arrived ("body").
Reply(read, status, body) == [read |-> read, status |-> status, body |-> body]
NoReply == Reply("none", 0, NoBody)

\* What announce() returned: nothing yet, Ok(response) or
\* Err(TrackerError::Http(_)) / Err(TrackerError::Bencode(_)) (lines 39-49).
HttpRunning == [kind |-> "running", error |-> "", peers |-> <<>>]
HttpOk(peers) == [kind |-> "ok", error |-> "", peers |-> peers]
HttpErr(error) == [kind |-> "err", error |-> error, peers |-> <<>>]

\* No HTTP announce is under way.
HttpIdle ==
    /\ hpc = "idle"
    /\ h_requests = <<>>
    /\ h_reply = NoReply
    /\ h_result = HttpRunning

\* How PieceDownload::new ended: it was not called, it returned a piece
\* with count blocks, each in state each (lines 35-36), or the addition
\* of line 34 panicked (a build with overflow checks, which debug builds
\* have).
NotConstructed == [kind |-> "none", count |-> 0, each |-> Block_default]
Constructed(count) == [kind |-> "ok", count |-> count, each |-> Block_default]
AddOverflowPanic == [kind |-> "panic", count |-> 0, each |-> Block_default]

\* No PieceDownload::new on a u32 length is under way.
NewIdle ==
    /\ new_length = ToU32(BLOCK_LEN)
    /\ new_outcome = NotConstructed

\* The state right after PieceDownload::new(idx, len).
InitDownload ==
    /\ \E idx \in PieceIndexes, len \in PieceLengths :
          LET d == PieceDownload_new(idx, len) IN
            /\ index = d.index
            /\ length = d.length
            /\ blocks = d.blocks
    /\ debug_assertions \in BOOLEAN
    /\ panicked = FALSE
    /\ op = Op("new", 0, <<>>, NoBlock, 0)
    /\ returned = <<>>

Init == InitDownload /\ UdpIdle /\ HttpIdle /\ NewIdle

\* Session s calls pick_blocks(count).
PickBlocks(s, count) ==
    /\ ~panicked
    /\ LET r == pick_blocks(index, blocks, count) IN
         /\ blocks' = r.blocks
         /\ op' = Op("pick_blocks", count, r.picked, NoBlock, 0)
         /\ returned' = returned \o Tagged(s, r.picked)
    /\ UNCHANGED <<index, length, debug_assertions, panicked>>
    /\ UNCHANGED <<uvars, hvars, nvars>>

\* received_block(block) is called.  A build with debug assertions panics
\* when one of them fails; a build without them runs line 94 whatever the
\* block's state, where indexing self.blocks panics on an index that is
\* out of its bounds.
ReceivedBlockCall(block) ==
    /\ ~panicked
    /\ op' = Op("received_block", 0, <<>>, block, 0)
    /\ IF debug_assertions /\ ~ReceivedAsserts(block)
       THEN /\ panicked' = TRUE
            /\ UNCHANGED blocks
       ELSE IF BlockInfo_index(block) >= Len(blocks)
       THEN /\ panicked' = TRUE
            /\ UNCHANGED blocks
       ELSE /\ blocks' = received_block(blocks, block)
            /\ UNCHANGED panicked
    /\ UNCHANGED <<index, length, debug_assertions, returned>>
    /\ UNCHANGED <<uvars, hvars, nvars>>

\* Session s calls received_block(block) for a block it was handed.
ReceivedBlock(s, block) ==
    /\ block \in ReturnedTo(s)
    /\ ReceivedBlockCall(block)

\* A session calls free_block_count().
FreeBlockCount ==
    /\ ~panicked
    /\ op' = Op("free_block_count", 0, <<>>, NoBlock, free_block_count(blocks))
    /\ UNCHANGED <<index, length, blocks, debug_assertions, panicked, returned>>
    /\ UNCHANGED <<uvars, hvars, nvars>>

Next ==
    \/ \E s \in Sessions, count \in 0..MaxCount : PickBlocks(s, count)
    \/ \E s \in Sessions, block \in ReturnedBlocks : ReceivedBlock(s, block)
    \/ FreeBlockCount

Spec == Init /\ [][Next]_vars

(***************************************************************************)
(* One PieceDownload whose callers do not keep received_block's contract.  *)
(***************************************************************************)
\* The BlockInfo values received_block is called with: either piece
\* index, offsets at and one past every block boundary up to one block
\* past the longest piece, and a length of a byte, of a block, and of more
\* than the longest piece.
AnyBlockInfos ==
    [piece_index : PieceIndexes,
     offset : {k * BLOCK_LEN + r : k \in 0..MaxBlocks, r \in {0, 1}},
     length : {1, BLOCK_LEN, MaxBlocks * BLOCK_LEN + 1}]

NextContract ==
    \/ \E count \in 0..MaxCount : PickBlocks(1, count)
    \/ \E block \in AnyBlockInfos : ReceivedBlockCall(block)

SpecContract == Init /\ [][NextContract]_vars

(***************************************************************************)
(* One PieceDownload whose sessions keep picking while blocks are Free and *)
(* whose peers deliver every block that was picked, once.                  *)
(***************************************************************************)
\* Session s passes to received_block a block it was handed and that has
\* not been delivered yet.
Deliver(s, block) ==
    /\ block \in ReturnedTo(s)
    /\ blocks[BlockInfo_index(block) + 1] = "Requested"
    /\ ReceivedBlockCall(block)

\* A session calls pick_blocks for at least one block while a block is Free.
PickWhileFree ==
    /\ \E i \in 1..Len(blocks) : blocks[i] = "Free"
    /\ \E s \in Sessions, count \in 1..MaxCount : PickBlocks(s, count)

\* The BlockInfo values pick_blocks can return.
PickableBlockInfos ==
    {BlockInfo_new(idx, PickedOffset(i)) : idx \in PieceIndexes, i \in 1..MaxBlocks}

NextLive ==
    \/ \E s \in Sessions, count \in 0..MaxCount : PickBlocks(s, count)
    \/ \E s \in Sessions, block \in ReturnedBlocks : Deliver(s, block)
    \/ FreeBlockCount

SpecLive ==
    /\ Init
    /\ [][NextLive]_vars
    /\ WF_vars(PickWhileFree)
    /\ \A block \in PickableBlockInfos :
          WF_vars(\E s \in Sessions : Deliver(s, block))

(***************************************************************************)
(* PieceDownload::new on any u32 piece length.                             *)
(***************************************************************************)
\* Piece lengths at and around the block boundaries of the lowest and the
\* highest 64 KiB of the u32 range and of its middle.
NewLengths ==
    {U32(hi, k * BLOCK_LEN + r) :
        hi \in {0, 1, 32767, 32768, 65534, 65535},
        k \in 0..(65536 \div BLOCK_LEN - 1),
        r \in Remainders} \ {U32(0, 0)}

\* new(index, length) is about to be called, in a debug or a release
\* build.
InitNew ==
    /\ index = 0
    /\ length = BLOCK_LEN
    /\ blocks = PieceDownload_new(0, BLOCK_LEN).blocks
    /\ debug_assertions \in BOOLEAN
    /\ panicked = FALSE
    /\ op = Op("new", 0, <<>>, NoBlock, 0)
    /\ returned = <<>>
    /\ UdpIdle
    /\ HttpIdle
    /\ new_length \in NewLengths
    /\ new_outcome = NotConstructed

\* PieceDownload::new(index, new_length), lines 30-42: a build with
\* overflow checks panics when the sum of line 34 leaves u32, a build
\* without them goes on with the sum modulo 2^32.
New ==
    /\ new_outcome = NotConstructed
    /\ LET n == blocks_count_u32(new_length) IN
         new_outcome' = IF debug_assertions /\ n.overflow
                        THEN AddOverflowPanic
                        ELSE Constructed(n.count)
    /\ UNCHANGED new_length
    /\ UNCHANGED <<dvars, uvars, hvars>>

SpecNew == InitNew /\ [][New]_vars

(***************************************************************************)
(* One call of Tracker::announce on a UDP tracker.                         *)
(***************************************************************************)
\* The piece download the announce task does not touch.
DownloadIdle ==
    /\ index = 0
    /\ length = BLOCK_LEN
    /\ blocks = PieceDownload_new(0, BLOCK_LEN).blocks
    /\ debug_assertions = TRUE
    /\ panicked = FALSE
    /\ op = Op("new", 0, <<>>, NoBlock, 0)
    /\ returned = <<>>

InitUdp == DownloadIdle /\ UdpIdle /\ HttpIdle /\ NewIdle

\* announce(params) on a UDP tracker enters announce_udp, which binds its
\* socket to a random port (lines 228-230, 305-309).
Announce(p) ==
    /\ upc = "idle"
    /\ params' = p
    /\ \E port \in Ports : a_port' = port
    /\ upc' = "resolve"
    /\ UNCHANGED <<c_port, c_tid, c_buf, attempts, could_connect, c_only_timeouts,
                   c_last, c_result, connection_id, a_tid, a_last, result,
                   sent>>
    /\ UNCHANGED <<dvars, hvars, nvars>>

\* Lines 312-317: the tracker's addresses are resolved and the first IPv4
\* one is taken; the unwrap of line 317 panics when there is none.
Resolve(has_ipv4) ==
    /\ upc = "resolve"
    /\ IF has_ipv4
       THEN upc' = "c_bind" /\ UNCHANGED result
       ELSE upc' = "panicked" /\ result' = Panic(317)
    /\ UNCHANGED <<params, a_port, c_port, c_tid, c_buf, attempts,
                   could_connect, c_only_timeouts, c_last, c_result, connection_id,
                   a_tid, a_last, sent>>
    /\ UNCHANGED <<dvars, hvars, nvars>>

\* connect_udp, lines 170-179: a second socket is bound to a random port
\* while announce_udp's socket is open; binding a port that is in use
\* fails and the unwrap of line 174 panics.
ConnectBind(port, tid) ==
    /\ upc = "c_bind"
    /\ c_port' = port
    /\ IF port = a_port
       THEN upc' = "panicked" /\ result' = Panic(174) /\ UNCHANGED c_tid
       ELSE upc' = "c_send" /\ c_tid' = tid /\ UNCHANGED result
    /\ UNCHANGED <<params, a_port, c_buf, attempts, could_connect, c_only_timeouts,
                   c_last, c_result, connection_id, a_tid, a_last, sent>>
    /\ UNCHANGED <<dvars, hvars, nvars>>

\* connect_udp, lines 181-195: the connect frame is sent.
ConnectSend ==
    /\ upc = "c_send"
    /\ sent' = Append(sent, ConnectFrame(c_tid))
    /\ c_buf' = ZeroConnectBuf
    /\ attempts' = 0
    /\ could_connect' = FALSE
    /\ upc' = "c_recv"
    /\ UNCHANGED <<params, a_port, c_port, c_tid, c_only_timeouts, c_last, c_result,
                   connection_id, a_tid, a_last, result>>
    /\ UNCHANGED <<dvars, hvars, nvars>>

\* Mutant of ConnectRecv: every turn of the loop sends the frame again.
ConnectRecv_Retransmit(kind, d) ==
    /\ upc = "c_recv"
    /\ ConnectLoopContinues(c_buf, attempts)
    /\ sent' = Append(sent, ConnectFrame(c_tid))
    /\ c_buf' = IF kind = "datagram" THEN RecvIntoConnectBuf(c_buf, d) ELSE c_buf
    /\ could_connect' = CouldConnectAfter(kind)
    /\ attempts' = attempts + 1
    /\ c_only_timeouts' = (c_only_timeouts /\ kind = "timeout")
    /\ c_last' = Outcome(kind, d, ConnectWaitTime)
    /\ UNCHANGED <<upc, params, a_port, c_port, c_tid, c_result, connection_id,
                   a_tid, a_last, result>>
    /\ UNCHANGED <<dvars, hvars, nvars>>

\* connect_udp, lines 197-206: one turn of the receive loop.
ConnectRecv(kind, d) ==
    /\ upc = "c_recv"
    /\ ConnectLoopContinues(c_buf, attempts)
    /\ c_buf' = IF kind = "datagram" THEN RecvIntoConnectBuf(c_buf, d) ELSE c_buf
    /\ could_connect' = CouldConnectAfter(kind)
    /\ attempts' = attempts + 1
    /\ c_only_timeouts' = (c_only_timeouts /\ kind = "timeout")
    /\ c_last' = Outcome(kind, d, ConnectWaitTime)
    /\ UNCHANGED <<upc, params, a_port, c_port, c_tid, c_result, connection_id,
                   a_tid, a_last, result, sent>>
    /\ UNCHANGED <<dvars, hvars, nvars>>

\* connect_udp, lines 208-216: the loop is left and connect_udp returns;
\* its locals response_buf, attempts and could_connect are dropped (they
\* read as at their declaration from here on).
ConnectReturn ==
    /\ upc = "c_recv"
    /\ ~ConnectLoopContinues(c_buf, attempts)
    /\ c_result' = ConnectResult(could_connect, c_tid, c_buf)
    /\ c_buf' = ZeroConnectBuf
    /\ attempts' = 0
    /\ could_connect' = FALSE
    /\ upc' = "a_unwrap"
    /\ UNCHANGED <<params, a_port, c_port, c_tid, c_only_timeouts, c_last,
                   connection_id, a_tid, a_last, result, sent>>
    /\ UNCHANGED <<dvars, hvars, nvars>>

\* announce_udp, lines 321-325: connect_udp's result is unwrapped, which
\* panics on None, and the announce's transaction id is drawn.
AnnounceUnwrap(tid) ==
    /\ upc = "a_unwrap"
    /\ IF c_result.some
       THEN /\ connection_id' = c_result.val
            /\ a_tid' = tid
            /\ upc' = "a_send"
            /\ UNCHANGED result
       ELSE /\ upc' = "panicked"
            /\ result' = Panic(321)
            /\ UNCHANGED <<connection_id, a_tid>>
    /\ UNCHANGED <<params, a_port, c_port, c_tid, c_buf, attempts,
                   could_connect, c_only_timeouts, c_last, c_result, a_last, sent>>
    /\ UNCHANGED <<dvars, hvars, nvars>>

\* announce_udp, lines 327-382: the announce frame is built, which panics
\* on a counter that does not fit an i64, and sent.
AnnounceSend(key) ==
    /\ upc = "a_send"
    /\ IF CountersFitI64(params)
       THEN /\ sent' = Append(sent,
                         AnnounceFrame(connection_id, a_tid, key, params))
            /\ upc' = "a_recv"
            /\ UNCHANGED result
       ELSE /\ upc' = "panicked"
            /\ result' = Panic(337)
            /\ UNCHANGED sent
    /\ UNCHANGED <<params, a_port, c_port, c_tid, c_buf, attempts,
                   could_connect, c_only_timeouts, c_last, c_result, connection_id,
                   a_tid, a_last>>
    /\ UNCHANGED <<dvars, hvars, nvars>>

\* announce_udp, lines 383-448: the one receive, the parse of the buffer
\* and the return of the Response; the unwraps of lines 443-444 panic on a
\* negative count.
AnnounceRecv(kind, d) ==
    /\ upc = "a_recv"
    /\ a_last' = Outcome(kind, d, AnnounceWaitTime(connection_id))
    /\ LET buf == IF kind = "datagram"
                  THEN RecvIntoAnnounceBuf(ZeroAnnounceBuf, d)
                  ELSE ZeroAnnounceBuf
       IN IF buf.counts[1] < 0 \/ buf.counts[2] < 0
          THEN upc' = "panicked" /\ result' = Panic(443)
          ELSE upc' = "done" /\ result' = ReturnedOk(Response(kind, a_tid, buf))
    /\ UNCHANGED <<params, a_port, c_port, c_tid, c_buf, attempts,
                   could_connect, c_only_timeouts, c_last, c_result, connection_id,
                   a_tid, sent>>
    /\ UNCHANGED <<dvars, hvars, nvars>>

NextUdp ==
    \/ \E p \in Announces : Announce(p)
    \/ \E has_ipv4 \in BOOLEAN : Resolve(has_ipv4)
    \/ \E port \in Ports, tid \in TxIds : ConnectBind(port, tid)
    \/ ConnectSend
    \/ \E d \in ConnectDatagrams : ConnectRecv("datagram", d)
    \/ \E kind \in {"timeout", "error"} : ConnectRecv(kind, NoConnectDatagram)
    \/ ConnectReturn
    \/ \E tid \in TxIds : AnnounceUnwrap(tid)
    \/ \E key \in Keys : AnnounceSend(key)
    \/ \E d \in AnnounceDatagrams : AnnounceRecv("datagram", d)
    \/ \E kind \in {"timeout", "error"} : AnnounceRecv(kind, NoAnnounceDatagram)

SpecUdp == InitUdp /\ [][NextUdp]_vars

(***************************************************************************)
(* One call of Tracker::announce on an HTTP tracker.                       *)
(***************************************************************************)
InitHttp == DownloadIdle /\ UdpIdle /\ HttpIdle /\ NewIdle

\* announce(params) on an HTTP tracker enters announce_http, which builds
\* the request and hands it to send() (lines 231, 238-296).
HttpAnnounce(p) ==
    /\ hpc = "idle"
    /\ params' = p
    /\ h_requests' = Append(h_requests, HttpRequest(p))
    /\ hpc' = "send"
    /\ UNCHANGED <<h_reply, h_result>>
    /\ UNCHANGED <<upc, a_port, c_port, c_tid, c_buf, attempts, could_connect,
                   c_only_timeouts, c_last, c_result, connection_id, a_tid,
                   a_last, result, sent>>
    /\ UNCHANGED <<dvars, nvars>>

\* send().await is Err (line 297): the `?` returns TrackerError::Http.
HttpSendFails ==
    /\ hpc = "send"
    /\ h_reply' = Reply("send_failed", 0, NoBody)
    /\ h_result' = HttpErr("Http")
    /\ hpc' = "done"
    /\ UNCHANGED h_requests
    /\ UNCHANGED <<dvars, uvars, nvars>>

\* send().await is Ok(response) (line 297) and error_for_status() looks
\* at its status (line 298), whose `?` returns TrackerError::Http; else
\* bytes() is awaited (line 299).
HttpSendReturns(status) ==
    /\ hpc = "send"
    /\ h_reply' = Reply("status", status, NoBody)
    /\ IF IsErrorStatus(status)
       THEN hpc' = "done" /\ h_result' = HttpErr("Http")
       ELSE hpc' = "bytes" /\ UNCHANGED h_result
    /\ UNCHANGED h_requests
    /\ UNCHANGED <<dvars, uvars, nvars>>

\* bytes().await is Err (line 300): the `?` returns TrackerError::Http.
HttpBytesFails ==
    /\ hpc = "bytes"
    /\ h_reply' = Reply("bytes_failed", h_reply.status, NoBody)
    /\ h_result' = HttpErr("Http")
    /\ hpc' = "done"
    /\ UNCHANGED h_requests
    /\ UNCHANGED <<dvars, uvars, nvars>>

\* bytes().await is Ok(body) (line 300) and the body is decoded (line
\* 301), whose `?` returns TrackerError::Bencode; else Ok(resp) (302).
HttpBytesReturns(body) ==
    /\ hpc = "bytes"
    /\ h_reply' = Reply("body", h_reply.status, body)
    /\ LET resp == from_bytes(body) IN
         h_result' = IF resp.ok THEN HttpOk(resp.peers) ELSE HttpErr("Bencode")
    /\ hpc' = "done"
    /\ UNCHANGED h_requests
    /\ UNCHANGED <<dvars, uvars, nvars>>

NextHttp ==
    \/ \E p \in Announces : HttpAnnounce(p)
    \/ HttpSendFails
    \/ \E status \in Statuses : HttpSendReturns(status)
    \/ HttpBytesFails
    \/ \E body \in Bodies : HttpBytesReturns(body)

SpecHttp == InitHttp /\ [][NextHttp]_vars

(***************************************************************************)
(* Notions the properties are stated with.                                 *)
(***************************************************************************)
\* ceil(len / BLOCK_LEN), by its defining inequalities.
CeilBlocks(len) ==
    CHOOSE n \in 0..(MaxBlocks + 1) :
        n * BLOCK_LEN >= len /\ (n - 1) * BLOCK_LEN < len

FreeIndexes(blks) == {i \in 1..Len(blks) : blks[i] = "Free"}
NumFree(blks) == Cardinality(FreeIndexes(blks))
NoFree(blks) == FreeIndexes(blks) = {}

\* The k-th Free block of blks in block-index order (1-based position).
KthFree(blks, k) ==
    CHOOSE i \in FreeIndexes(blks) :
        Cardinality({j \in FreeIndexes(blks) : j < i}) = k - 1

Min(a, b) == IF a <= b THEN a ELSE b

SomeBlockIs(st) == \E i \in 1..Len(blocks) : blocks[i] = st

\* C1: no BlockInfo is returned twice over all pick_blocks calls, and every
\* returned BlockInfo carries the piece's index and an offset that is a
\* multiple of BLOCK_LEN and smaller than the piece's length.
C1_NoBlockPickedTwice ==
    /\ \A i, j \in 1..Len(returned) :
          i # j => returned[i].block # returned[j].block
    /\ \A i \in 1..Len(returned) :
          LET b == returned[i].block IN
            /\ b.piece_index = index
            /\ b.offset >= 0
            /\ b.offset % BLOCK_LEN = 0
            /\ b.offset < length

\* Several pick_blocks calls have returned blocks, interleaved with a
\* received_block call.
C1_Witness ==
    /\ op.name = "pick_blocks"
    /\ Len(op.picked) >= 1
    /\ Len(returned) > Len(op.picked)
    /\ SomeBlockIs("Received")

C3_PickLowestFreeInOrder ==
    [][op'.name = "pick_blocks" =>
         LET n == Min(op'.count, NumFree(blocks)) IN
           /\ Len(op'.picked) = n
           /\ \A k \in 1..n :
                LET i == KthFree(blocks, k) IN
                  /\ op'.picked[k].offset = (i - 1) * BLOCK_LEN
                  /\ op'.picked[k].piece_index = index
                  /\ blocks'[i] = "Requested"
           /\ \A k \in 1..Len(op'.picked) :
                \A i \in 1..Len(blocks) :
                   op'.picked[k].offset = (i - 1) * BLOCK_LEN
                      => blocks[i] = "Free"]_vars

\* A pick_blocks call asked for more than was free and skipped the blocks
\* picked before it, one of them already Received.
C3_Witness ==
    /\ op.name = "pick_blocks"
    /\ Len(op.picked) >= 1
    /\ Len(op.picked) < op.count
    /\ op.picked[1].offset > 0
    /\ SomeBlockIs("Received")

C5_SessionsGetDisjointBlocks ==
    \A s, t \in Sessions :
        s # t => ReturnedTo(s) \cap ReturnedTo(t) = {}

\* Two sessions were handed blocks alternately, and one block has arrived.
C5_Witness ==
    /\ Len(returned) >= 3
    /\ returned[1].session # returned[2].session
    /\ returned[3].session = returned[1].session
    /\ SomeBlockIs("Received")

\* C6: once no block is Free, no block is Free ever after, and every
\* pick_blocks call returns the empty list and changes no block.
C6_DrainedPieceStaysDrained ==
    [][NoFree(blocks) =>
         /\ NoFree(blocks')
         /\ op'.name = "pick_blocks" =>
               op'.picked = <<>> /\ blocks' = blocks]_vars

\* pick_blocks(k), k >= 1, was called on a piece with no Free block, some
\* blocks Requested and some Received, and returned the empty list.
C6_Witness ==
    /\ NoFree(blocks)
    /\ op.name = "pick_blocks"
    /\ op.count >= 1
    /\ op.picked = <<>>
    /\ SomeBlockIs("Requested")
    /\ SomeBlockIs("Received")

\* C7: a drained piece of length k * BLOCK_LEN + r has yielded
\* ceil(length / BLOCK_LEN) BlockInfo values, each of length BLOCK_LEN
\* except the last of a piece with r > 0, whose length is
\* r = piece length - offset.
C7_BlockLengths ==
    NoFree(blocks) =>
        /\ Len(returned) = CeilBlocks(length)
        /\ \A i \in 1..Len(returned) :
              LET b == returned[i].block IN
                b.length = Min(BLOCK_LEN, length - b.offset)

\* C8: pick_blocks changes exactly the blocks it returns (none when count
\* is 0), a received_block call that returns changes no block but the one
\* at offset / BLOCK_LEN, which is Received afterwards (and was Requested
\* when the call's preconditions held), free_block_count changes nothing,
\* and no call changes the piece's index, its length or its block count.
C8_Frame ==
    [][/\ index' = index
       /\ length' = length
       /\ Len(blocks') = Len(blocks)
       /\ op'.name = "pick_blocks" =>
            /\ \A i \in 1..Len(blocks) :
                 blocks'[i] # blocks[i] <=>
                   \E k \in 1..Len(op'.picked) :
                      BlockInfo_index(op'.picked[k]) + 1 = i
            /\ op'.count = 0 => op'.picked = <<>> /\ blocks' = blocks
       /\ (op'.name = "received_block" /\ ~panicked') =>
            LET at == (op'.block.offset \div BLOCK_LEN) + 1 IN
              /\ \A i \in 1..Len(blocks) : i # at => blocks'[i] = blocks[i]
              /\ blocks'[at] = "Received"
              /\ ReceivedAsserts(op'.block) => blocks[at] = "Requested"
       /\ op'.name = "free_block_count" => blocks' = blocks]_vars

\* received_block has just returned for the second of three picked blocks
\* while a block is still Free.
C8_Witness ==
    /\ op.name = "received_block"
    /\ ~panicked
    /\ op.block.offset = BLOCK_LEN
    /\ blocks[1] = "Requested"
    /\ blocks[2] = "Received"
    /\ SomeBlockIs("Free")

\* The announce task has left connect_udp.
ConnectReturned == upc \in {"a_unwrap", "a_send", "a_recv", "done", "panicked"}
                   /\ c_last.kind # "none"

AnnounceFrameSent == \E i \in 1..Len(sent) : sent[i].action = 1

\* C9: an announce frame is sent only after a connect frame, once the
\* connect step has ended with a reply (a datagram carrying a transaction
\* id and a connection id) whose transaction id is the one sent, and the
\* frame's connection_id is the connection id in bytes 8..16 of that reply.
C9_AnnounceAfterMatchingConnect ==
    \A i \in 1..Len(sent) :
        sent[i].action = 1 =>
            /\ \E j \in 1..(i - 1) : sent[j] = ConnectFrame(c_tid)
            /\ ConnectReturned
            /\ c_result.some
            /\ c_last.kind = "datagram"
            /\ c_last.d.len >= 16
            /\ c_last.d.transaction_id = c_tid
            /\ sent[i].connection_id = c_last.d.connection_id

\* C10: when every receive attempt of the connect step timed out,
\* connect_udp returns None, no announce frame is sent, no peer list is
\* produced, and the announce ends by returning a failure to its caller
\* (an error, or a Response whose failure_reason is set).
C10_ConnectTimeoutFailsAnnounce ==
    (ConnectReturned /\ c_only_timeouts) =>
        /\ c_result = None
        /\ ~AnnounceFrameSent
        /\ result.response.peers = <<>>
        /\ upc \in {"done", "panicked"} =>
              \/ result.kind = "err"
              \/ result.kind = "ok" /\ result.response.failure_reason.some

\* C11: the connect step ends: it makes at most 5 receive attempts, each
\* under a 3 second deadline, and after an attempt has received a reply
\* datagram (the 16 bytes of a connect reply) it makes no further attempt.
C11_ConnectStopsAtReply ==
    /\ [](/\ attempts <= MaxAttempts
          /\ c_last.kind # "none" => c_last.wait = 3)
    /\ [][(c_last.kind = "datagram" /\ c_last.d.len >= 16)
            => attempts' # attempts + 1]_vars

\* C12: when the read of the announce reply timed out, announce returns a
\* Response whose failure_reason is "Couldn't announce to tracker",
\* whatever transaction id was drawn.
C12_AnnounceTimeoutReason ==
    (upc = "done" /\ a_last.kind = "timeout") =>
        /\ result.kind = "ok"
        /\ result.response.failure_reason
              = Some("Couldn't announce to tracker")

\* The announce socket received a reply that carries a transaction id.
AnnounceReplyReceived == a_last.kind = "datagram" /\ a_last.d.len >= 8

\* C13: a Response built from a reply whose transaction id (bytes 4..8)
\* differs from the one sent has failure_reason "Transaction ID's did not
\* match"; and a Response's failure_reason is None exactly when a reply
\* was received before the deadline and its transaction id is the one sent.
C13_FailureReason ==
    upc = "done" =>
        /\ (AnnounceReplyReceived /\ a_last.d.transaction_id # a_tid) =>
              result.response.failure_reason
                 = Some("Transaction ID's did not match")
        /\ ~result.response.failure_reason.some <=>
              (AnnounceReplyReceived /\ a_last.d.transaction_id = a_tid)

\* The records of a peer list before its first record whose IP and port
\* are both zero (all of them when it has none).
RECURSIVE UpToZeroRecord(_)
UpToZeroRecord(recs) ==
    IF recs = <<>> \/ Head(recs) = ZeroPeer THEN <<>>
    ELSE <<Head(recs)>> \o UpToZeroRecord(Tail(recs))

\* The number of whole 6-byte records a 2048-byte buffer holds from
\* offset 20 on is BufPeers here; the announce reply's records in it.
ReplyRecords ==
    [i \in 1..BufPeers |->
        IF i <= Len(a_last.d.peers) THEN a_last.d.peers[i] ELSE ZeroPeer]

\* C14: the peer list of an announce reply is read record by record from
\* offset 20 and ends only at the first record whose IP and port are both
\* zero, or at the end of the buffer: a record with a zero port and a
\* non-zero IP, or a zero IP and a non-zero port, does not end it, so every
\* peer with a non-zero IP and port before the first all-zero record is in
\* the Response, and the Response holds no other peer.
C14_PeerListEndsAtZeroRecord ==
    (upc = "done" /\ a_last.kind = "datagram" /\ a_last.d.len >= 20) =>
        LET read == UpToZeroRecord(ReplyRecords)
            got == result.response.peers
        IN /\ \A i \in 1..Len(read) :
                 (read[i].ip # ZeroIp /\ read[i].port # 0) =>
                    \E j \in 1..Len(got) : got[j] = read[i]
           /\ \A j \in 1..Len(got) :
                 \E i \in 1..Len(read) : read[i] = got[j]

\* The HTTP announce has read a body that is a Bencode response apart,
\* possibly, from its peers field.
BodyRead == hpc = "done" /\ h_reply.read = "body" /\ h_reply.body.bencode

\* C15: decoding the compact encoding of a list of (IPv4, port) pairs (6
\* bytes a pair: the address, then the port, both big-endian) yields the
\* pairs as socket addresses in the same order; a byte string whose length
\* is not a multiple of 6 is rejected with a decode error, without peers.
C15_CompactRoundTrip ==
    (BodyRead /\ h_reply.body.form = "bytes") =>
        LET body == h_reply.body IN
          /\ body.bytes = encode_compact_peers_list(body.of) =>
                /\ h_result.kind = "ok"
                /\ Len(h_result.peers) = Len(body.of)
                /\ \A i \in 1..Len(body.of) :
                      h_result.peers[i]
                         = [ip |-> [v |-> 4, octets |-> body.of[i].ip],
                            port |-> body.of[i].port]
          /\ Len(body.bytes) % 6 # 0 =>
                /\ h_result.kind = "err"
                /\ h_result.error = "Bencode"
                /\ h_result.peers = <<>>

\* The encoding of two different peers, the first with a port whose two
\* bytes differ, was decoded.
C15_Witness ==
    /\ BodyRead
    /\ h_reply.body.form = "bytes"
    /\ Len(h_reply.body.of) = 2
    /\ h_reply.body.of[1] # h_reply.body.of[2]
    /\ h_reply.body.of[1].port = 49123
    /\ h_reply.body.bytes = encode_compact_peers_list(h_reply.body.of)
    /\ h_result.kind = "ok"

\* The entry's ip string parses as an IP address.
IpParses(entry) == ParseIp(entry.ip).ok

\* C16: decoding a full peer list (a list of dicts with ip and port)
\* yields, in list order, one socket address for each entry whose ip
\* string parses as an IP address; the other entries are skipped without
\* an error.
C16_FullPeerList ==
    (/\ BodyRead
     /\ h_reply.body.form = "list"
     /\ \A i \in 1..Len(h_reply.body.entries) : h_reply.body.entries[i].valid) =>
        LET kept == SelectSeq(h_reply.body.entries, IpParses) IN
          /\ h_result.kind = "ok"
          /\ Len(h_result.peers) = Len(kept)
          /\ \A i \in 1..Len(kept) :
                h_result.peers[i]
                   = [ip |-> ParseIp(kept[i].ip).ip, port |-> kept[i].port]

\* A list whose first entry has an ip that does not parse and whose second
\* entry has one that does was decoded into one socket address.
C16_Witness ==
    /\ BodyRead
    /\ h_reply.body.form = "list"
    /\ Len(h_reply.body.entries) = 2
    /\ h_reply.body.entries[1].valid
    /\ ~IpParses(h_reply.body.entries[1])
    /\ h_reply.body.entries[2].valid
    /\ IpParses(h_reply.body.entries[2])
    /\ h_result.kind = "ok"
    /\ Len(h_result.peers) = 1

\* The body is not a valid Bencode response: it is not Bencode, or its
\* peers field is a byte string whose length is not a multiple of 6, a
\* list with an entry that is not a peer dict, or neither a string nor a
\* list.
InvalidBody(body) ==
    \/ ~body.bencode
    \/ body.form = "bytes" /\ Len(body.bytes) % 6 # 0
    \/ body.form = "list" /\ \E i \in 1..Len(body.entries) : ~body.entries[i].valid
    \/ body.form = "int"

\* One GET request is handed to send() by an announce, and no other.
OneGetRequest ==
    /\ Len(h_requests) <= 1
    /\ hpc # "idle" => Len(h_requests) = 1 /\ h_requests[1].method = "GET"

C18_ConnectMismatchSurfaces ==
    (/\ ConnectReturned
     /\ c_last.kind = "datagram"
     /\ c_last.d.len >= 8
     /\ c_last.d.transaction_id # c_tid) =>
        /\ c_result = None
        /\ ~AnnounceFrameSent
        /\ upc \in {"done", "panicked"} =>
              \/ result.kind = "err"
              \/ result.kind = "ok" /\ result.response.failure_reason.some

\* The preconditions of received_block(block) in the piece's current
\* state.
Preconditions(block) ==
    /\ block.piece_index = index
    /\ block.offset < length
    /\ block.length <= length
    /\ blocks[(block.offset \div BLOCK_LEN) + 1] = "Requested"

\* Some block is Received after the step and was not before it.
SomeBlockMarked ==
    \E i \in 1..Len(blocks) : blocks'[i] = "Received" /\ blocks[i] # "Received"

\* The step sets the block at offset / BLOCK_LEN to Received, changes no
\* other block and returns.
MarksAddressedBlock(block) ==
    /\ blocks' = [blocks EXCEPT ![(block.offset \div BLOCK_LEN) + 1] = "Received"]
    /\ ~panicked'

\* The step is stopped by a panic and changes no block.
StoppedUnchanged == panicked' /\ blocks' = blocks

\* C19: received_block marks a block Received only when its preconditions
\* hold (the piece index is the piece's, offset < piece length, block
\* length <= piece length, the addressed block is Requested); a call that
\* violates a precondition is stopped by an assertion and changes no
\* block's state.
C19_ContractEnforced ==
    [][op'.name = "received_block" =>
         /\ SomeBlockMarked => Preconditions(op'.block)
         /\ ~Preconditions(op'.block) => StoppedUnchanged]_vars

\* C19, amended: when its preconditions hold, received_block marks the
\* addressed block Received.  In a build with debug assertions it marks a
\* block only then, and a call that violates a precondition is stopped by
\* an assertion and changes no block's state.  In a build without them a
\* violating call is not stopped: it sets the block at offset / BLOCK_LEN
\* to Received whatever its state, unless that index is past the last
\* block, where the indexing panics and no block changes.
C19_ContractEnforcedInDebug ==
    [][op'.name = "received_block" =>
         /\ Preconditions(op'.block) => MarksAddressedBlock(op'.block)
         /\ debug_assertions =>
              /\ SomeBlockMarked => Preconditions(op'.block)
              /\ ~Preconditions(op'.block) => StoppedUnchanged
         /\ (~debug_assertions /\ ~Preconditions(op'.block)) =>
              IF op'.block.offset \div BLOCK_LEN < Len(blocks)
              THEN MarksAddressedBlock(op'.block)
              ELSE StoppedUnchanged]_vars

\* In a build with debug assertions, received_block was called for a block
\* of the piece that is Free while another one is Requested, and the call
\* was stopped.
C19_Witness ==
    /\ op.name = "received_block"
    /\ debug_assertions
    /\ panicked
    /\ op.block.piece_index = index
    /\ op.block.offset < length
    /\ op.block.length <= length
    /\ blocks[(op.block.offset \div BLOCK_LEN) + 1] = "Free"
    /\ SomeBlockIs("Requested")

\* ceil(len / BLOCK_LEN) for a u32 len: the whole blocks in it, and one
\* more when bytes are left over.
CeilBlocksU32(len) ==
    len.hi * (65536 \div BLOCK_LEN) + len.lo \div BLOCK_LEN
       + (IF len.lo % BLOCK_LEN > 0 THEN 1 ELSE 0)

\* C20: for every piece length in u32 that is at least 1, up to 2^32 - 1,
\* PieceDownload::new returns a piece with exactly
\* ceil(length / BLOCK_LEN) block states, all Free (that the number of
\* block states does not change afterwards is part of C8).
C20_NewBlockCount ==
    new_outcome.kind # "none" =>
        /\ new_outcome.kind = "ok"
        /\ new_outcome.count = CeilBlocksU32(new_length)
        /\ new_outcome.each = "Free"

\* The number of frames with the given action handed to send_to so far.
NumFrames(action) ==
    Cardinality({i \in 1..Len(sent) : sent[i].action = action})

\* C21: the UDP announce step does not retry: an announce call sends at
\* most one announce frame, exactly one once it awaits the reply or has
\* returned, and makes one receive for the reply, under a deadline of at
\* most 3 seconds; after that receive, whatever its outcome (reply,
\* timeout, transaction id mismatch), nothing is sent or received.
C21_AnnounceNoRetry ==
    /\ [](/\ NumFrames(1) <= 1
          /\ upc \in {"a_recv", "done"} => NumFrames(1) = 1
          /\ a_last.kind # "none" => NumFrames(1) = 1 /\ a_last.wait <= 3
          /\ upc = "done" => a_last.kind # "none")
    /\ [][a_last.kind # "none" => a_last' = a_last /\ sent' = sent]_vars

\* The announce returned after its one frame was answered, within the 3
\* seconds, by a reply with another transaction id.
C21_Witness ==
    /\ upc = "done"
    /\ NumFrames(1) = 1
    /\ a_last.kind = "datagram"
    /\ a_last.d.len >= 8
    /\ a_last.d.transaction_id # a_tid
    /\ a_last.wait = 3
    /\ result.response.failure_reason.some

\* C24: connect_udp hands the connect frame to send_to exactly once,
\* before its first receive attempt; no receive attempt sends anything, so
\* the frame is not sent again within the announce.
C24_ConnectSentOnce ==
    /\ [](/\ NumFrames(0) <= 1
          /\ (upc = "c_recv" \/ c_last.kind # "none") => NumFrames(0) = 1)
    /\ [][attempts' = attempts + 1 =>
             NumFrames(0) = 1 /\ sent' = sent]_vars

\* All five receive attempts timed out and one connect frame was sent.
C24_Witness ==
    /\ upc = "c_recv"
    /\ attempts = 5
    /\ c_only_timeouts
    /\ NumFrames(0) = 1
    /\ Len(sent) = 1

\* C25: a UDP reply is accepted only if its action field has the expected
\* value: a complete connect reply with the transaction id sent and an
\* action other than 0 gives no connection id, and a complete announce
\* reply with the transaction id sent and an action other than 1 gives no
\* seeder or leecher count and no peer.
C25_ActionChecked ==
    /\ (/\ ConnectReturned
        /\ c_last.kind = "datagram"
        /\ c_last.d.len >= 16
        /\ c_last.d.transaction_id = c_tid
        /\ c_last.d.action # 0) => ~c_result.some
    /\ (/\ upc = "done"
        /\ a_last.kind = "datagram"
        /\ a_last.d.len >= 20
        /\ a_last.d.transaction_id = a_tid
        /\ a_last.d.action # 1) =>
           /\ result.response.peers = <<>>
           /\ result.response.leecher_count = 0
           /\ result.response.seeder_count = 0

\* C26: the socket of announce_udp and the socket of connect_udp, each
\* bound to a port drawn at random while the other may be open, never
\* contend for a port: whatever the two draws, the bind of connect_udp's
\* socket does not fail.
C26_NoPortContention ==
    /\ ~(result.kind = "panic" /\ result.line = 174)
    /\ c_port # 0 => c_port # a_port

\* ---- C22 ----
\* The offset in the frame at which a field starts, its width there, and
\* the length of the whole frame.
FieldOffset(f, field) ==
    LET puts == AnnounceBytes(f)
        n == CHOOSE i \in 1..Len(puts) : puts[i].field = field
    IN  BytesLen(puts, n - 1)
FieldSize(f, field) ==
    LET puts == AnnounceBytes(f)
    IN  puts[CHOOSE i \in 1..Len(puts) : puts[i].field = field].size
FrameLength(f) == BytesLen(AnnounceBytes(f), Len(AnnounceBytes(f)))

\* The frame has the layout and the values of the announce of p.
FrameAsSpecified(f, p) ==
    /\ FrameLength(f) = 98
    /\ FieldOffset(f, "downloaded") = 56 /\ FieldSize(f, "downloaded") = 8
    /\ FieldOffset(f, "left") = 64 /\ FieldSize(f, "left") = 8
    /\ FieldOffset(f, "uploaded") = 72 /\ FieldSize(f, "uploaded") = 8
    /\ FieldOffset(f, "event") = 80 /\ FieldSize(f, "event") = 4
    /\ FieldOffset(f, "ip") = 84 /\ FieldSize(f, "ip") = 4
    /\ FieldOffset(f, "numwant") = 92 /\ FieldSize(f, "numwant") = 4
    /\ FieldOffset(f, "port") = 96 /\ FieldSize(f, "port") = 2
    /\ ~p.downloaded.top /\ f.downloaded = p.downloaded.rest
    /\ ~p.left.top /\ f.left = p.left.rest
    /\ ~p.uploaded.top /\ f.uploaded = p.uploaded.rest
    /\ f.event = (CASE p.event = "None" -> 0
                    [] p.event = "Completed" -> 1
                    [] p.event = "Started" -> 2
                    [] p.event = "Stopped" -> 3)
    /\ f.ip = (IF p.ip = "V4" THEN <<192, 168, 0, 10>> ELSE <<0, 0, 0, 0>>)
    /\ f.numwant = (IF p.peer_count.some THEN p.peer_count.val ELSE 0 - 1)
    /\ f.port = p.port

\* The announce step was taken with a connection id: the frame was built.
AnnounceStepTaken ==
    ConnectReturned /\ c_result.some /\ upc \notin {"a_unwrap", "a_send"}

\* C22: for every Announce value, the announce step sends a frame of
\* exactly 98 bytes whose fields are at their fixed offsets: downloaded,
\* left and uploaded at 56, 64 and 72 as 64-bit values equal to the
\* counters, event at 80 (0 none, 1 completed, 2 started, 3 stopped), ip at
\* 84 (the IPv4 octets, or 0 when absent or IPv6), numwant at 92
\* (peer_count, or -1 when unset) and port at 96.
C22_AnnounceFrameLayout ==
    AnnounceStepTaken =>
        /\ AnnounceFrameSent
        /\ \A i \in 1..Len(sent) :
              sent[i].action = 1 => FrameAsSpecified(sent[i], params)

\* ---- C23 ----
\* The request carries the tracker id: a "trackerid" pair of its query
\* holds it.
CarriesTrackerId(request, id) ==
    "trackerid" \in DOMAIN request /\ request.trackerid = id

\* C23: when Announce.tracker_id is set, the request that announce sends to
\* the tracker carries that tracker id.
C23_TrackerIdSent ==
    \A i \in 1..Len(h_requests) :
        params.tracker_id.some =>
            CarriesTrackerId(h_requests[i], params.tracker_id.val)

\* ---- C27 ----
AllReceived == \A i \in 1..Len(blocks) : blocks[i] = "Received"

\* A step leaves every Requested block Requested, unless it is the call of
\* received_block for that block, and pick_blocks does not return it.
RequestedStalls ==
    \A i \in 1..Len(blocks) :
        blocks[i] = "Requested" =>
            /\ \/ blocks'[i] = "Requested"
               \/ /\ blocks'[i] = "Received"
                  /\ op'.name = "received_block"
                  /\ BlockInfo_index(op'.block) + 1 = i
            /\ op'.name = "pick_blocks" =>
                  \A j \in 1..Len(op'.picked) :
                      BlockInfo_index(op'.picked[j]) + 1 # i

====
